---- MODULE Spec2Model ----
(***************************************************************************)
(* Form persistence and identifier resolution of backend/server.py:        *)
(* the five /api/forms handlers over the MongoDB collection db.forms.      *)
(*                                                                         *)
(* Every handler is one atomic action (one request at a time).  A storage  *)
(* call may raise; the handler's "except Exception" turns whatever was     *)
(* raised inside the try block into a 500 response.                        *)
(***************************************************************************)
EXTENDS Integers, Sequences, FiniteSets, TLC

VARIABLES store, nextUuid, nextOid, clock, resp, deleted

vars == <<store, nextUuid, nextOid, clock, resp, deleted>>

(***************************************************************************)
(* Bounds                                                                  *)
(***************************************************************************)
\* number of POST /forms requests explored by Spec
MaxCreate == 2
\* last clock reading (milliseconds, the resolution the store keeps)
MaxClock == 1
\* number of POST /forms requests explored by SpecCap (beyond the list cap)
CapCreate == 102

\* to_list(100) in get_forms
ListCap == 100

(***************************************************************************)
(* Values.  Identifiers are typed the way BSON types them: an ObjectId is  *)
(* not a string, and a query compares type and value.  The text of a       *)
(* value is <<alphabet, n>>: 24 hex digits for an ObjectId, the 36         *)
(* characters of a UUID, or some other text; texts of different alphabets  *)
(* are different strings.                                                  *)
(***************************************************************************)
ObjectId(n) == [type |-> "ObjectId", val |-> <<"hex", n>>]

\* str(x) of an ObjectId: its hex text, as a string
StrOf(x) == [type |-> "str", val |-> x.val]

\* str(uuid.uuid4()): the n-th UUID drawn by the process
uuid4(n) == [type |-> "str", val |-> <<"uuid", n>>]

\* a string that is neither a UUID that was drawn nor the hex of an ObjectId
OtherId == [type |-> "str", val |-> <<"other", 0>>]

NoId == [type |-> "none", val |-> <<"none", 0>>]

\* FormField objects of the request body (class FormField, parsed by the framework)
FullName ==
    [type |-> "text", label |-> "Full Name", name |-> "full_name",
     required |-> TRUE, className |-> "form-control", access |-> FALSE]

Email ==
    [type |-> "email", label |-> "Email Address", name |-> "email",
     required |-> TRUE, className |-> "form-control", access |-> FALSE]

\* field.dict(): the attributes of the FormField object as a dict
FieldDict(field) == [k \in DOMAIN field |-> field[k]]

\* [field.dict() for field in form_data.fields]
FieldDicts(fields) == [i \in DOMAIN fields |-> FieldDict(fields[i])]

\* FormCreate request bodies: a form, and its second version with one more field
FormCreate ==
    {[name |-> "Contact", fields |-> <<FullName>>],
     [name |-> "Contact v2", fields |-> <<FullName, Email>>]}

NoReq == [name |-> "", fields |-> <<>>]

\* identifiers a client may put in the path /forms/{form_id}
FormIds(n) ==
    {uuid4(i) : i \in 1..n} \cup {StrOf(ObjectId(i)) : i \in 1..n} \cup {OtherId}

\* datetime.utcnow(): a reading of the wall clock, at or after the last one
UtcNow(last, max) == {t \in {last, last + 1} : t <= max}

(***************************************************************************)
(* The collection: documents in insertion (natural) order                  *)
(***************************************************************************)
\* index of the first document whose field key equals value, 0 if none
FindIdx(coll, key, value) ==
    LET hits == {i \in 1..Len(coll) : key \in DOMAIN coll[i] /\ coll[i][key] = value}
    IN  IF hits = {} THEN 0 ELSE CHOOSE i \in hits : \A j \in hits : i <= j

\* insert_one(doc): the driver adds _id, the document goes last
InsertOne(coll, doc, oid) ==
    Append(coll, [k \in DOMAIN doc \cup {"_id"} |-> IF k = "_id" THEN oid ELSE doc[k]])

RemoveAt(coll, i) == SubSeq(coll, 1, i - 1) \o SubSeq(coll, i + 1, Len(coll))

\* a cursor drained without a length limit
ToListUncapped(coll, n) == coll

\* find().to_list(n): at most n documents, natural order
ToList(coll, n) == SubSeq(coll, 1, IF Len(coll) < n THEN Len(coll) ELSE n)

\* response_model=Form: the response keeps the fields of class Form
Form(doc) ==
    [id |-> doc.id, name |-> doc.name, fields |-> doc.fields,
     created_at |-> doc.created_at, updated_at |-> doc.updated_at]

\* form["id"] = str(form.pop("_id"))
PopId(doc) ==
    [k \in (DOMAIN doc \ {"_id"}) \cup {"id"} |-> IF k = "id" THEN StrOf(doc["_id"]) ELSE doc[k]]

Reply(op, arg, req, status, cause, body) ==
    [op |-> op, arg |-> arg, req |-> req, status |-> status, cause |-> cause, body |-> body]

\* except Exception as e: raise HTTPException(status_code=500, detail=str(e))
Reply500(op, arg, req, cause) == Reply(op, arg, req, 500, cause, <<>>)

Init ==
    /\ store = <<>>
    /\ nextUuid = 1
    /\ nextOid = 1
    /\ clock = 0
    /\ deleted = {}
    /\ resp = Reply("none", NoId, NoReq, 0, "none", <<>>)

(***************************************************************************)
(* POST /forms                                                             *)
(***************************************************************************)
CreateForm(form_data, t1, t2, fault) ==
    LET form == [id |-> uuid4(nextUuid), name |-> form_data.name,
                 fields |-> FieldDicts(form_data.fields),
                 created_at |-> t1, updated_at |-> t2]
        oid == ObjectId(nextOid)
        inserted == InsertOne(store, form, oid)
        idx == FindIdx(inserted, "_id", oid)
    IN  /\ nextUuid' = nextUuid + 1
        /\ nextOid' = nextOid + 1
        /\ clock' = t2
        /\ UNCHANGED deleted
        /\ IF fault = "insert_one"
           THEN /\ store' = store
                /\ resp' = Reply500("create", NoId, form_data, "storage_fault")
           ELSE /\ store' = inserted
                /\ IF fault = "find_one"
                   THEN resp' = Reply500("create", NoId, form_data, "storage_fault")
                   ELSE IF idx # 0
                   THEN resp' = Reply("create", NoId, form_data, 200, "none",
                                      Form(PopId(inserted[idx])))
                   ELSE resp' = Reply500("create", NoId, form_data, "http_500")

Create ==
    /\ nextUuid <= MaxCreate
    /\ \E form_data \in FormCreate, fault \in {"none", "insert_one", "find_one"} :
       \E t1 \in UtcNow(clock, MaxClock) : \E t2 \in UtcNow(t1, MaxClock) :
          CreateForm(form_data, t1, t2, fault)

(***************************************************************************)
(* GET /forms                                                              *)
(***************************************************************************)
GetForms(fault) ==
    LET forms == ToList(store, ListCap)
    IN  /\ UNCHANGED <<store, nextUuid, nextOid, clock, deleted>>
        /\ IF fault = "find"
           THEN resp' = Reply500("list", NoId, NoReq, "storage_fault")
           ELSE resp' = Reply("list", NoId, NoReq, 200, "none",
                              [i \in DOMAIN forms |-> Form(PopId(forms[i]))])

List == \E fault \in {"none", "find"} : GetForms(fault)

(***************************************************************************)
(* GET /forms/{form_id}                                                    *)
(***************************************************************************)
\* form["id"] = str(form.pop("_id")) only if the document has no id field
Normalize(form) ==
    IF "_id" \in DOMAIN form /\ "id" \notin DOMAIN form THEN PopId(form) ELSE form

GetForm(form_id, fault) ==
    LET byId == FindIdx(store, "id", form_id)
        byNative == FindIdx(store, "_id", form_id)
        idx == IF byId # 0 THEN byId ELSE byNative
    IN  /\ UNCHANGED <<store, nextUuid, nextOid, clock, deleted>>
        /\ IF fault = "find_one"
           THEN resp' = Reply500("get", form_id, NoReq, "storage_fault")
           ELSE IF idx = 0
           \* raise HTTPException(404) inside the try: caught by except Exception
           THEN resp' = Reply500("get", form_id, NoReq, "http_404")
           ELSE resp' = Reply("get", form_id, NoReq, 200, "none",
                              Form(Normalize(store[idx])))

Get ==
    \E form_id \in FormIds(MaxCreate), fault \in {"none", "find_one"} :
        GetForm(form_id, fault)

(***************************************************************************)
(* PUT /forms/{form_id}                                                    *)
(***************************************************************************)
\* a $set that writes the name and the timestamp but not the fields
SetFieldsNoFields(doc, form_dict) ==
    [k \in DOMAIN doc \cup DOMAIN form_dict |->
        IF k \in DOMAIN form_dict \ {"fields"} THEN form_dict[k] ELSE doc[k]]

\* {"$set": form_dict} applied to one document
SetFields(doc, form_dict) ==
    [k \in DOMAIN doc \cup DOMAIN form_dict |->
        IF k \in DOMAIN form_dict THEN form_dict[k] ELSE doc[k]]

\* update_one(filter, {"$set": ...}): the collection after the write
UpdateOne(coll, key, value, form_dict) ==
    LET i == FindIdx(coll, key, value)
    IN  IF i = 0 THEN coll ELSE [coll EXCEPT ![i] = SetFields(coll[i], form_dict)]

\* result.modified_count: documents the write actually changed
ModifiedCount(coll, key, value, form_dict) ==
    LET i == FindIdx(coll, key, value)
    IN  IF i # 0 /\ SetFields(coll[i], form_dict) # coll[i] THEN 1 ELSE 0

UpdateForm(form_id, form_data, now, fault) ==
    LET form_dict == [name |-> form_data.name,
                      fields |-> FieldDicts(form_data.fields),
                      updated_at |-> now]
        updated == UpdateOne(store, "id", form_id, form_dict)
        idx == FindIdx(updated, "id", form_id)
    IN  /\ clock' = now
        /\ UNCHANGED <<nextUuid, nextOid, deleted>>
        /\ IF fault = "update_one"
           THEN /\ store' = store
                /\ resp' = Reply500("update", form_id, form_data, "storage_fault")
           ELSE /\ store' = updated
                /\ IF ModifiedCount(store, "id", form_id, form_dict) = 0
                   THEN resp' = Reply500("update", form_id, form_data, "http_404")
                   ELSE IF fault = "find_one"
                   THEN resp' = Reply500("update", form_id, form_data, "storage_fault")
                   ELSE resp' = Reply("update", form_id, form_data, 200, "none",
                                      Form(updated[idx]))

Update ==
    \E form_id \in FormIds(MaxCreate), form_data \in FormCreate,
       fault \in {"none", "update_one", "find_one"} :
       \E now \in UtcNow(clock, MaxClock) :
          /\ fault = "find_one" =>
                ModifiedCount(store, "id", form_id,
                              [name |-> form_data.name,
                               fields |-> FieldDicts(form_data.fields),
                               updated_at |-> now]) # 0
          /\ UpdateForm(form_id, form_data, now, fault)

(***************************************************************************)
(* DELETE /forms/{form_id}                                                 *)
(***************************************************************************)
\* delete_one(filter): the collection after the write
DeleteOne(coll, key, value) ==
    LET i == FindIdx(coll, key, value)
    IN  IF i = 0 THEN coll ELSE RemoveAt(coll, i)

\* result.deleted_count
DeletedCount(coll, key, value) == IF FindIdx(coll, key, value) # 0 THEN 1 ELSE 0

DeleteForm(form_id, fault) ==
    /\ UNCHANGED <<nextUuid, nextOid, clock>>
    /\ IF fault = "delete_one"
       THEN /\ UNCHANGED <<store, deleted>>
            /\ resp' = Reply500("delete", form_id, NoReq, "storage_fault")
       ELSE /\ store' = DeleteOne(store, "id", form_id)
            /\ IF DeletedCount(store, "id", form_id) = 0
               THEN /\ UNCHANGED deleted
                    /\ resp' = Reply500("delete", form_id, NoReq, "http_404")
               ELSE /\ deleted' = deleted \cup {form_id}
                    /\ resp' = Reply("delete", form_id, NoReq, 200, "none",
                                     <<"Form deleted successfully">>)

Delete ==
    \E form_id \in FormIds(MaxCreate), fault \in {"none", "delete_one"} :
        DeleteForm(form_id, fault)

Next == Create \/ List \/ Get \/ Update \/ Delete

Spec == Init /\ [][Next]_vars

(***************************************************************************)
(* A collection that grows past the list cap: one request body, the clock  *)
(* not moving, forms created one after another and removed oldest first.   *)
(***************************************************************************)
Contact == [name |-> "Contact", fields |-> <<FullName>>]

CreateCap ==
    /\ nextUuid <= CapCreate
    /\ CreateForm(Contact, clock, clock, "none")

DeleteCap ==
    /\ store # <<>>
    /\ DeleteForm(store[1].id, "none")

NextCap == CreateCap \/ List \/ DeleteCap

SpecCap == Init /\ [][NextCap]_vars

(***************************************************************************)
(* Properties                                                              *)
(***************************************************************************)
StorageFault(r) == r.cause = "storage_fault"

\* the stored forms whose app-level id, resp. native identifier, is x
ByAppId(x) == {i \in 1..Len(store) : store[i].id = x}

ByNativeId(x) == {i \in 1..Len(store) : StrOf(store[i]["_id"]) = x}

\* C1: a Get with the id of a successful Create response answers 200 with
\* the submitted name and fields.
C1_CreateThenGet ==
    [][(/\ resp.op = "create" /\ resp.status = 200
        /\ resp'.op = "get" /\ resp'.arg = resp.body.id
        /\ ~StorageFault(resp'))
       => (/\ resp'.status = 200
           /\ resp'.body.name = resp.req.name
           /\ resp'.body.fields = resp.req.fields)]_vars

\* C2: the id of a Form returned by Create or by List is the id field of the
\* stored record, never the text of its native identifier.
C2_AppLevelIdExposed ==
    /\ (resp.op = "create" /\ resp.status = 200) =>
          /\ ByAppId(resp.body.id) # {}
          /\ ByNativeId(resp.body.id) = {}
    /\ (resp.op = "list" /\ resp.status = 200) =>
          \A k \in DOMAIN resp.body :
             /\ ByAppId(resp.body[k].id) # {}
             /\ ByNativeId(resp.body[k].id) = {}

\* C3: a Get of an identifier that is neither the app-level id nor the native
\* identifier of a stored form answers 404, not 500.
C3_GetUnknownIs404 ==
    (/\ resp.op = "get" /\ ~StorageFault(resp)
     /\ ByAppId(resp.arg) = {} /\ ByNativeId(resp.arg) = {})
    => resp.status = 404

\* C4: once Delete(id) has succeeded the form stays out of the store, and
\* every later Get(id) and Update(id, ...) answers 404.
C4_DeleteIsTerminal ==
    /\ \A d \in deleted : ByAppId(d) = {}
    /\ (/\ resp.op \in {"get", "update"} /\ ~StorageFault(resp)
        /\ resp.arg \in deleted)
       => resp.status = 404

\* the frame of a successful Update, with the relation later(old, new) that
\* the updated_at values satisfy
UpdateEffect(later(_, _)) ==
    (resp'.op = "update" /\ resp'.status = 200) =>
        LET i == FindIdx(store, "id", resp'.arg)
        IN  /\ i # 0
            /\ Len(store') = Len(store)
            /\ store'[i].name = resp'.req.name
            /\ store'[i].fields = resp'.req.fields
            /\ store'[i].updated_at = clock'
            /\ later(store[i].updated_at, store'[i].updated_at)
            /\ store'[i].id = store[i].id
            /\ store'[i]["_id"] = store[i]["_id"]
            /\ store'[i].created_at = store[i].created_at
            /\ \A j \in 1..Len(store) : j # i => store'[j] = store[j]

GetAfterUpdate ==
    (/\ resp.op = "update" /\ resp.status = 200
     /\ resp'.op = "get" /\ resp'.arg = resp.arg /\ ~StorageFault(resp'))
    => (/\ resp'.status = 200
        /\ resp'.body.name = resp.req.name
        /\ resp'.body.fields = resp.req.fields)

StrictlyLater(old, new) == new > old

NotEarlier(old, new) == new >= old

\* C5 (as claimed): a successful Update replaces name and fields, moves
\* updated_at strictly forward, keeps id and created_at and every other form,
\* and a Get right after it returns the new name and fields.
C5_UpdateStrictlyForward ==
    [][UpdateEffect(StrictlyLater) /\ GetAfterUpdate]_vars

\* C5 (amended): a successful Update replaces name and fields, sets
\* updated_at to the clock reading of the request, which is not earlier than
\* the old value but may equal it, keeps id and created_at and every other
\* form, and a Get right after it returns the new name and fields.
C5_UpdateEffect ==
    [][UpdateEffect(NotEarlier) /\ GetAfterUpdate]_vars

\* a successful Update of one of two stored forms, at the same clock reading
\* as the form's last write
C5_Witness ==
    /\ resp.op = "update" /\ resp.status = 200
    /\ Len(store) = 2
    /\ \E i \in ByAppId(resp.arg) :
          /\ store[i].name = resp.req.name
          /\ store[i].updated_at = store[i].created_at

\* C6: the id of a Create response works for Update (200, new name and
\* fields), then for Delete (200), and a Get after that answers 404.
C6_CreatedIdIsHandle ==
    [][/\ (/\ resp.op = "create" /\ resp.status = 200
           /\ resp'.op = "update" /\ resp'.arg = resp.body.id
           /\ ~StorageFault(resp'))
          => (/\ resp'.status = 200
              /\ resp'.body.name = resp'.req.name
              /\ resp'.body.fields = resp'.req.fields)
       /\ (/\ resp.op = "update" /\ resp.status = 200
           /\ resp'.op = "delete" /\ resp'.arg = resp.arg
           /\ ~StorageFault(resp'))
          => resp'.status = 200
       /\ (/\ resp.op = "delete" /\ resp.status = 200
           /\ resp'.op = "get" /\ resp'.arg = resp.arg
           /\ ~StorageFault(resp'))
          => resp'.status = 404]_vars

\* C7: Get(x) returns the form whose app-level id is x if there is one,
\* otherwise the form whose native identifier is x if there is one, and
\* answers 404 only if there is neither.
C7_GetFallbackChain ==
    (resp.op = "get" /\ ~StorageFault(resp)) =>
        IF ByAppId(resp.arg) # {}
        THEN /\ resp.status = 200
             /\ \E i \in ByAppId(resp.arg) :
                   resp.body.name = store[i].name /\ resp.body.fields = store[i].fields
        ELSE IF ByNativeId(resp.arg) # {}
        THEN /\ resp.status = 200
             /\ \E i \in ByNativeId(resp.arg) :
                   resp.body.name = store[i].name /\ resp.body.fields = store[i].fields
        ELSE resp.status = 404

\* C8: Update answers 404 exactly when no stored form has the app-level id,
\* and then leaves the store unchanged; when a form matches it answers 200
\* with the record as stored after the update, whatever name and fields
\* were submitted.
C8_UpdateNotFoundIffNoMatch ==
    [][(resp'.op = "update" /\ ~StorageFault(resp')) =>
          LET i == FindIdx(store, "id", resp'.arg)
          IN  /\ (resp'.status = 404) <=> (i = 0)
              /\ i = 0 => store' = store
              /\ i # 0 => /\ resp'.status = 200
                          /\ resp'.body = Form(store'[i])]_vars

\* C9: List returns at most ListCap forms, each of them a form that is in
\* the store, also when the store holds more than ListCap forms.
C9_ListIsCapped ==
    (resp.op = "list" /\ resp.status = 200) =>
        /\ Len(resp.body) <= ListCap
        /\ \A k \in DOMAIN resp.body :
              \E i \in ByNativeId(resp.body[k].id) :
                 /\ resp.body[k].name = store[i].name
                 /\ resp.body[k].fields = store[i].fields
                 /\ resp.body[k].created_at = store[i].created_at
                 /\ resp.body[k].updated_at = store[i].updated_at

\* a List answered with exactly ListCap forms while the store holds more
C9_Witness ==
    /\ resp.op = "list" /\ resp.status = 200
    /\ Len(store) > ListCap
    /\ Len(resp.body) = ListCap

\* C10: a Create, Update or Delete that answers with an error (404 or 500)
\* leaves the stored collection exactly as it was.
C10_ErrorLeavesStore ==
    [][(resp'.op \in {"create", "update", "delete"} /\ resp'.status \in {404, 500})
       => store' = store]_vars
====
